---- MODULE Spec2Model ----
(***************************************************************************)
(* Provisioning of the address_places index and of the stored search       *)
(* templates by init_es.py ("v1") and init_es_v2.py ("v2").                *)
(*                                                                         *)
(* Two provisioner processes run one of the two scripts against one search *)
(* engine.  Every action is one HTTP call of the script together with the  *)
(* code that handles its answer up to the next call.  The engine holds the *)
(* index (present or not, with its mapping properties) and the stored      *)
(* templates; each call is answered truthfully or, when the behaviour      *)
(* allows faults, with an error status or a transport exception.           *)
(***************************************************************************)
EXTENDS Integers, Sequences, FiniteSets, TLC

VARIABLES
    idx,        \* engine: [exists, props] of the index INDEX_NAME
    templates,  \* engine: the stored scripts under _scripts/, <<name, body>>
    faults,     \* environment: whether calls may be answered with errors
    mode,       \* environment: scripts launched "concurrent" or "sequential"
    pc,         \* per process: position in main()
    script,     \* per process: which script it runs ("v1" | "v2" | "none")
    force,      \* per process: args.force_recreate
    elapsed,    \* per process: time.time() - start inside the readiness loop
    polls,      \* per process: failed health probes so far
    health,     \* per process: status of the last health probe, -1 before it
    calls,      \* per process: index/template calls issued, <<op, status>>
    ti,         \* per process: position in the templates list (1-based)
    outcome,    \* per process: result of create_index, downgraded by main
    reason,     \* per process: why the run failed (kind, detail, errors)
    exit        \* per process: exit code, -1 while running

vars == <<idx, templates, faults, mode, pc, script, force, elapsed, polls,
          health, calls, ti, outcome, reason, exit>>

Procs == {"p1", "p2"}
Scripts == {"v1", "v2"}

(***************************************************************************)
(* Bounds of the model.                                                    *)
(***************************************************************************)
\* failed health probes a run may see before the engine stays silent
MaxPolls == 3

(***************************************************************************)
(* Program constants.                                                      *)
(***************************************************************************)
timeout == 300          \* wait_for_elasticsearch(timeout=300)
PollDelay == 5          \* time.sleep(5)
\* status of a call that raised requests.exceptions.RequestException
Exc == 0

\* how long one failed session.get may last, in seconds: the server-side
\* wait_for_status of 10 s, or the four attempts of the retry adapter, each
\* within its connect timeout and its read timeout of 15 s
ProbeDurations == {10, 120}

(***************************************************************************)
(* Mapping properties.  A field is "missing", present without a "type" key *)
(* ("notype", an object field with sub-properties) or has a type string.   *)
(* `other` tells whether any non-fingerprint property exists.              *)
(***************************************************************************)
None == "None"

EmptyProps == [centroid |-> "missing", address_parts |-> "missing", other |-> FALSE]

NoIndex == [exists |-> FALSE, props |-> EmptyProps]

\* "mappings"."properties" of index_config, reduced to the fingerprint fields
IndexConfigV1 == [centroid |-> "notype", address_parts |-> "nested", other |-> TRUE]

IndexConfigV2 == [centroid |-> "geo_point", address_parts |-> "nested", other |-> TRUE]

\* mutant: v2 declares centroid as v1 does, as an object holding coordinates
index_config_centroid_object(s) == IndexConfigV1

index_config(s) == IF s = "v1" THEN IndexConfigV1 ELSE IndexConfigV2

\* the templates list of create_search_templates: (name, body) in the order
\* of the list; a body is named after the literal that holds it
TemplatesV1 ==
    << <<"address_places_search", "address_places_search_tmpl">>,
       <<"name_search", "name_search_tmpl">>,
       <<"universal_name_address_search", "universal_search_tmpl">> >>

TemplatesV2 ==
    << <<"address_structured_v2", "structured_query">>,
       <<"address_fallback_v2", "fallback_query">>,
       <<"address_universal_v2", "universal_query">> >>

template_list(s) == IF s = "v1" THEN TemplatesV1 ELSE TemplatesV2

\* props.get(field, {}).get("type")
GetType(props, field) ==
    IF props[field] \in {"missing", "notype"} THEN None ELSE props[field]

\* mutant: the status test of get_mapping_properties rejects the 200
get_mapping_properties_rejects_ok(status, index) ==
    IF status # 201 THEN EmptyProps ELSE index.props

\* get_mapping_properties: the properties on a 200, {} otherwise
get_mapping_properties(status, index) ==
    IF status # 200 THEN EmptyProps ELSE index.props

\* mutant: mapping_is_expected without the address_parts test
mapping_is_expected_centroid_only(props) ==
    IF props = EmptyProps
    THEN [ok |-> FALSE, detail |-> "empty mapping", errors |-> <<>>]
    ELSE LET centroid_type == GetType(props, "centroid")
             errors == IF centroid_type # "geo_point"
                       THEN << <<"centroid", "geo_point", centroid_type>> >>
                       ELSE <<>>
         IN  IF errors # <<>>
             THEN [ok |-> FALSE, detail |-> "mismatch", errors |-> errors]
             ELSE [ok |-> TRUE, detail |-> "ok", errors |-> <<>>]

\* mutant: mapping_is_expected without the test for empty properties, and
\* with tests that let a field without type pass
mapping_is_expected_accepts_empty(props) ==
    LET centroid_type == GetType(props, "centroid")
        address_parts_type == GetType(props, "address_parts")
        e1 == IF centroid_type \notin {"geo_point", None}
              THEN << <<"centroid", "geo_point", centroid_type>> >>
              ELSE <<>>
        e2 == IF address_parts_type \notin {"nested", None}
              THEN << <<"address_parts", "nested", address_parts_type>> >>
              ELSE <<>>
        errors == e1 \o e2
    IN  IF errors # <<>>
        THEN [ok |-> FALSE, detail |-> "mismatch", errors |-> errors]
        ELSE [ok |-> TRUE, detail |-> "ok", errors |-> <<>>]

\* mutant: the address_parts test is made before the centroid test
mapping_is_expected_address_parts_first(props) ==
    IF props = EmptyProps
    THEN [ok |-> FALSE, detail |-> "empty mapping", errors |-> <<>>]
    ELSE LET centroid_type == GetType(props, "centroid")
             address_parts_type == GetType(props, "address_parts")
             e1 == IF centroid_type # "geo_point"
                   THEN << <<"centroid", "geo_point", centroid_type>> >>
                   ELSE <<>>
             e2 == IF address_parts_type # "nested"
                   THEN << <<"address_parts", "nested", address_parts_type>> >>
                   ELSE <<>>
             errors == e2 \o e1
         IN  IF errors # <<>>
             THEN [ok |-> FALSE, detail |-> "mismatch", errors |-> errors]
             ELSE [ok |-> TRUE, detail |-> "ok", errors |-> <<>>]

\* mutant: the types are compared without regard to case
mapping_is_expected_ignores_case(props) ==
    IF props = EmptyProps
    THEN [ok |-> FALSE, detail |-> "empty mapping", errors |-> <<>>]
    ELSE LET centroid_type == GetType(props, "centroid")
             address_parts_type == GetType(props, "address_parts")
             e1 == IF centroid_type \notin {"geo_point", "GEO_POINT"}
                   THEN << <<"centroid", "geo_point", centroid_type>> >>
                   ELSE <<>>
             e2 == IF address_parts_type \notin {"nested", "Nested"}
                   THEN << <<"address_parts", "nested", address_parts_type>> >>
                   ELSE <<>>
             errors == e1 \o e2
         IN  IF errors # <<>>
             THEN [ok |-> FALSE, detail |-> "mismatch", errors |-> errors]
             ELSE [ok |-> TRUE, detail |-> "ok", errors |-> <<>>]

\* mapping_is_expected on already fetched properties
mapping_is_expected(props) ==
    IF props = EmptyProps
    THEN [ok |-> FALSE, detail |-> "empty mapping", errors |-> <<>>]
    ELSE LET centroid_type == GetType(props, "centroid")
             address_parts_type == GetType(props, "address_parts")
             e1 == IF centroid_type # "geo_point"
                   THEN << <<"centroid", "geo_point", centroid_type>> >>
                   ELSE <<>>
             e2 == IF address_parts_type # "nested"
                   THEN << <<"address_parts", "nested", address_parts_type>> >>
                   ELSE <<>>
             errors == e1 \o e2
         IN  IF errors # <<>>
             THEN [ok |-> FALSE, detail |-> "mismatch", errors |-> errors]
             ELSE [ok |-> TRUE, detail |-> "ok", errors |-> <<>>]

NoReason == [kind |-> "none", detail |-> "", errors |-> <<>>]

Why(kind, detail, errors) == [kind |-> kind, detail |-> detail, errors |-> errors]

(***************************************************************************)
(* The engine's answers.                                                   *)
(***************************************************************************)
FaultAnswers == IF faults THEN {503, Exc} ELSE {}

HealthAnswers == {200, 408, Exc}

HeadAnswers == (IF idx.exists THEN {200} ELSE {404}) \cup FaultAnswers

MappingAnswers == (IF idx.exists THEN {200} ELSE {404}) \cup FaultAnswers

DeleteAnswers == (IF idx.exists THEN {200} ELSE {404}) \cup FaultAnswers

PutAnswers == (IF idx.exists THEN {400} ELSE {200}) \cup FaultAnswers

PostAnswers == {200} \cup FaultAnswers

\* the index after DELETE /index answered `a`
AfterDelete(a) == IF a = 200 THEN NoIndex ELSE idx

\* mutant: the stored scripts are replaced wholesale by the one posted
AfterPost_replaces_store(a, name, body) ==
    IF a = 200 THEN {<<name, body>>} ELSE templates

\* the stored scripts after POST /_scripts/name with `body` answered `a`:
\* the script stored under that name is created or overwritten
AfterPost(a, name, body) ==
    IF a = 200
    THEN {t \in templates : t[1] # name} \cup {<<name, body>>}
    ELSE templates

\* the index after PUT /index with `config` answered `a`
AfterPut(a, config) == IF a = 200 THEN [exists |-> TRUE, props |-> config] ELSE idx

InitIndexes ==
    { NoIndex,
      [exists |-> TRUE, props |-> EmptyProps],
      [exists |-> TRUE, props |-> IndexConfigV1],
      [exists |-> TRUE, props |-> IndexConfigV2],
      [exists |-> TRUE, props |-> [centroid |-> "geo_point", address_parts |-> "notype", other |-> TRUE]],
      [exists |-> TRUE, props |-> [centroid |-> "keyword", address_parts |-> "missing", other |-> FALSE]] }

Init ==
    /\ idx \in InitIndexes
    /\ templates = {}
    /\ faults \in BOOLEAN
    /\ mode \in {"concurrent", "sequential"}
    /\ pc = [p \in Procs |-> "idle"]
    /\ script = [p \in Procs |-> "none"]
    /\ force = [p \in Procs |-> FALSE]
    /\ elapsed = [p \in Procs |-> 0]
    /\ polls = [p \in Procs |-> 0]
    /\ health = [p \in Procs |-> -1]
    /\ calls = [p \in Procs |-> <<>>]
    /\ ti = [p \in Procs |-> 1]
    /\ outcome = [p \in Procs |-> "none"]
    /\ reason = [p \in Procs |-> NoReason]
    /\ exit = [p \in Procs |-> -1]

\* the process ends with `code`
Finish(p, code, why) ==
    /\ pc' = [pc EXCEPT ![p] = "done"]
    /\ exit' = [exit EXCEPT ![p] = code]
    /\ reason' = [reason EXCEPT ![p] = why]

Goto(p, label) ==
    /\ pc' = [pc EXCEPT ![p] = label]
    /\ UNCHANGED <<exit, reason>>

Log(p, op, a) == calls' = [calls EXCEPT ![p] = Append(@, <<op, a>>)]

(***************************************************************************)
(* main(): parse_args and the start of wait_for_elasticsearch.             *)
(***************************************************************************)
Launch(p) ==
    /\ pc[p] = "idle"
    /\ mode = "sequential" => \A q \in Procs \ {p} : pc[q] \in {"idle", "done"}
    /\ \E s \in Scripts, f \in BOOLEAN :
          /\ s = "v1" => ~f
          /\ script' = [script EXCEPT ![p] = s]
          /\ force' = [force EXCEPT ![p] = f]
    /\ elapsed' = [elapsed EXCEPT ![p] = 0]
    /\ Goto(p, "gate")
    /\ UNCHANGED <<idx, templates, faults, mode, polls, health, calls, ti, outcome>>

(***************************************************************************)
(* wait_for_elasticsearch: one pass of the while loop.                     *)
(***************************************************************************)
\* the loop condition, time.time() - start < timeout
LoopContinues(e) == e < timeout

\* mutant: a RequestException of the probe is not caught
ProbeResult_exception_raised(a) ==
    IF a = 200 THEN "ready" ELSE IF a = Exc THEN "raise" ELSE "retry"

\* mutant: any answer of the engine ends the wait, whatever its status
ProbeResult_any_status(a) == IF a # Exc THEN "ready" ELSE "retry"

\* what the loop body does with the outcome of session.get: return True on
\* a 200; otherwise (another status, or a RequestException, which is caught
\* and dropped) fall through to the sleep
ProbeResult(a) == IF a = 200 THEN "ready" ELSE "retry"

GateProbe(p) ==
    /\ pc[p] = "gate"
    /\ LoopContinues(elapsed[p])
    /\ \E a \in HealthAnswers :
          /\ health' = [health EXCEPT ![p] = a]
          /\ CASE ProbeResult(a) = "ready" ->
                    /\ Goto(p, "head")
                    /\ elapsed' = [elapsed EXCEPT ![p] = 0]
                    /\ polls' = [polls EXCEPT ![p] = 0]
               [] ProbeResult(a) = "retry" ->
                    /\ polls[p] < MaxPolls
                    /\ \E d \in ProbeDurations :
                          elapsed' = [elapsed EXCEPT ![p] = @ + d + PollDelay]
                    /\ polls' = [polls EXCEPT ![p] = @ + 1]
                    /\ UNCHANGED <<pc, exit, reason>>
               [] OTHER ->
                    /\ Finish(p, 1, Why("exception", "", <<>>))
                    /\ UNCHANGED <<elapsed, polls>>
    /\ UNCHANGED <<idx, templates, faults, mode, script, force, calls, ti, outcome>>

\* the loop condition fails: raise, and main() ends with exit code 1
GateTimeout(p) ==
    /\ pc[p] = "gate"
    /\ ~LoopContinues(elapsed[p])
    /\ Finish(p, 1, Why("not ready", "", <<>>))
    /\ UNCHANGED <<idx, templates, faults, mode, script, force, elapsed, polls,
                   health, calls, ti, outcome>>

(***************************************************************************)
(* create_index: requests.head and the branch on its answer.               *)
(***************************************************************************)
\* mutant: the existing index is deleted whether or not the flag is set
AfterExists_ignores_flag(s, f) ==
    IF s = "v1" THEN "tmpl" ELSE "delete"

\* where create_index goes once the HEAD answered 200
AfterExists(s, f) ==
    IF s = "v1" THEN "tmpl"
    ELSE IF f THEN "delete"
    ELSE "mapping"

HeadIndex(p) ==
    /\ pc[p] = "head"
    /\ \E a \in HeadAnswers :
          /\ Log(p, "HEAD", a)
          /\ IF a # 200
             THEN /\ Goto(p, "put")
                  /\ UNCHANGED outcome
             ELSE /\ Goto(p, AfterExists(script[p], force[p]))
                  /\ outcome' = [outcome EXCEPT ![p] =
                                    IF script[p] = "v1" THEN "Skipped" ELSE @]
    /\ UNCHANGED <<idx, templates, faults, mode, script, force, elapsed, polls, health, ti>>

\* create_index of v2, force_recreate false: mapping_is_expected
CheckMapping(p) ==
    /\ pc[p] = "mapping"
    /\ \E a \in MappingAnswers :
          LET r == mapping_is_expected(get_mapping_properties(a, idx))
          IN  /\ Log(p, "GET", a)
              /\ IF r.ok
                 THEN /\ Goto(p, "tmpl")
                      /\ outcome' = [outcome EXCEPT ![p] = "Skipped"]
                 ELSE /\ Finish(p, 1, Why("mapping not expected", r.detail, r.errors))
                      /\ outcome' = [outcome EXCEPT ![p] = "Failed"]
    /\ UNCHANGED <<idx, templates, faults, mode, script, force, elapsed, polls, health, ti>>

\* mutant: delete_index accepts the 200 alone
DeleteProceeds_only_200(a) == a = 200 \/ a = Exc

\* mutant: delete_index does not accept a 404
DeleteProceeds_rejects_404(a) == a \in {200, 202} \/ a = Exc

\* whether create_index goes on to the PUT after DELETE answered `a`:
\* delete_index returns True on 200, 202 and 404; a RequestException raised
\* by requests.delete is swallowed by the except clause of create_index
DeleteProceeds(a) == a \in {200, 202, 404} \/ a = Exc

\* create_index of v2, force_recreate true: delete_index
DeleteIndex(p) ==
    /\ pc[p] = "delete"
    /\ \E a \in DeleteAnswers :
          /\ Log(p, "DELETE", a)
          /\ idx' = AfterDelete(a)
          /\ IF DeleteProceeds(a)
             THEN /\ Goto(p, "put")
                  /\ UNCHANGED outcome
             ELSE /\ Finish(p, 1, Why("delete failed", "", <<>>))
                  /\ outcome' = [outcome EXCEPT ![p] = "Failed"]
    /\ UNCHANGED <<templates, faults, mode, script, force, elapsed, polls, health, ti>>

\* mutant: only a 201 counts as created
PutResult_only_201(s, a, deleted) ==
    IF a = 201 THEN (IF deleted THEN "Recreated" ELSE "Created")
    ELSE IF s = "v1" /\ a = 400 THEN "Skipped"
    ELSE "Failed"

\* what create_index returns for the answer of requests.put
PutResult(s, a, deleted) ==
    IF a \in {200, 201} THEN (IF deleted THEN "Recreated" ELSE "Created")
    ELSE IF s = "v1" /\ a = 400 THEN "Skipped"
    ELSE "Failed"

Deleted(p) == \E i \in 1..Len(calls[p]) : calls[p][i][1] = "DELETE"

\* mutant: main goes on whatever create_index returned
MainContinues_always(res) == TRUE

\* main: `if not create_index(...): return 1`
MainContinues(res) == res # "Failed"

PutIndex(p) ==
    /\ pc[p] = "put"
    /\ \E a \in PutAnswers :
          LET res == PutResult(script[p], a, Deleted(p))
          IN  /\ Log(p, "PUT", a)
              /\ idx' = AfterPut(a, index_config(script[p]))
              /\ IF a = Exc
                 THEN /\ Finish(p, 1, Why("exception", "", <<>>))
                      /\ UNCHANGED outcome
                 ELSE IF ~MainContinues(res)
                 THEN /\ Finish(p, 1, Why("create failed", "", <<>>))
                      /\ outcome' = [outcome EXCEPT ![p] = "Failed"]
                 ELSE /\ Goto(p, "tmpl")
                      /\ outcome' = [outcome EXCEPT ![p] = res]
    /\ UNCHANGED <<templates, faults, mode, script, force, elapsed, polls, health, ti>>

(***************************************************************************)
(* create_search_templates: one pass of the for loop.                      *)
(***************************************************************************)
\* mutant: the loop goes on to the next template whatever the status
TemplateOk_any_status(a) == TRUE

\* the status test of the loop: 200 and 201 go on, anything else returns False
TemplateOk(a) == a \in {200, 201}

PostTemplate(p) ==
    /\ pc[p] = "tmpl"
    /\ \E a \in PostAnswers :
          LET name == template_list(script[p])[ti[p]][1]
              body == template_list(script[p])[ti[p]][2]
          IN  /\ Log(p, name, a)
              /\ templates' = AfterPost(a, name, body)
              /\ IF a = Exc
                 THEN /\ Finish(p, 1, Why("exception", name, <<>>))
                      /\ UNCHANGED ti
                 ELSE IF ~TemplateOk(a)
                 THEN /\ Finish(p, 1, Why("template failed", name, <<>>))
                      /\ UNCHANGED ti
                 ELSE IF ti[p] < Len(template_list(script[p]))
                 THEN /\ ti' = [ti EXCEPT ![p] = @ + 1]
                      /\ UNCHANGED <<pc, exit, reason>>
                 ELSE IF script[p] = "v1"
                 THEN /\ Finish(p, 0, NoReason)
                      /\ UNCHANGED ti
                 ELSE /\ Goto(p, "validate")
                      /\ UNCHANGED ti
    /\ UNCHANGED <<idx, faults, mode, script, force, elapsed, polls, health, outcome>>

(***************************************************************************)
(* main() of v2: the final mapping_is_expected.                            *)
(***************************************************************************)
Validate(p) ==
    /\ pc[p] = "validate"
    /\ \E a \in MappingAnswers :
          LET r == mapping_is_expected(get_mapping_properties(a, idx))
          IN  /\ Log(p, "GET", a)
              /\ IF r.ok
                 THEN /\ Finish(p, 0, NoReason)
                      /\ UNCHANGED outcome
                 ELSE /\ Finish(p, 1, Why("validation failed", r.detail, r.errors))
                      /\ outcome' = [outcome EXCEPT ![p] = "Failed"]
    /\ UNCHANGED <<idx, templates, faults, mode, script, force, elapsed, polls, health, ti>>

(***************************************************************************)
(* A call the engine never answers.  With a timeout argument the call      *)
(* raises after that time, which is the answer Exc of the actions above;   *)
(* without one the call never returns and the process stays where it is.   *)
(***************************************************************************)
CallLabels == {"head", "mapping", "delete", "put", "tmpl", "validate"}

\* whether the requests call made at `label` by script `s` passes timeout=:
\* every call of v2 does (10, 15, 30 or 60 s); requests.head, requests.put
\* and requests.post of v1 pass none
HasTimeout(s, label) == s = "v2"

CallHangs(p) ==
    /\ pc[p] \in CallLabels
    /\ faults
    /\ ~HasTimeout(script[p], pc[p])
    /\ pc' = [pc EXCEPT ![p] = "hung"]
    /\ UNCHANGED <<idx, templates, faults, mode, script, force, elapsed, polls,
                   health, calls, ti, outcome, reason, exit>>

Next ==
    \E p \in Procs :
        \/ Launch(p)
        \/ GateProbe(p)
        \/ GateTimeout(p)
        \/ HeadIndex(p)
        \/ CheckMapping(p)
        \/ DeleteIndex(p)
        \/ PutIndex(p)
        \/ PostTemplate(p)
        \/ Validate(p)
        \/ CallHangs(p)

Spec == Init /\ [][Next]_vars

(***************************************************************************)
(* The comparator on every mapping: runs one after the other against an    *)
(* index that exists with any combination of the two fingerprint fields    *)
(* (missing, without type, expected type, same type in another case,       *)
(* another type), with or without other fields.                            *)
(***************************************************************************)
CentroidValues == {"missing", "notype", "geo_point", "GEO_POINT", "keyword"}

AddressPartsValues == {"missing", "notype", "nested", "Nested", "object"}

AllMappings ==
    [centroid : CentroidValues, address_parts : AddressPartsValues, other : BOOLEAN]

InitCompare ==
    /\ idx \in {[exists |-> TRUE, props |-> m] : m \in AllMappings} \cup {NoIndex}
    /\ templates = {}
    /\ faults \in BOOLEAN
    /\ mode = "sequential"
    /\ pc = [p \in Procs |-> "idle"]
    /\ script = [p \in Procs |-> "none"]
    /\ force = [p \in Procs |-> FALSE]
    /\ elapsed = [p \in Procs |-> 0]
    /\ polls = [p \in Procs |-> 0]
    /\ health = [p \in Procs |-> -1]
    /\ calls = [p \in Procs |-> <<>>]
    /\ ti = [p \in Procs |-> 1]
    /\ outcome = [p \in Procs |-> "none"]
    /\ reason = [p \in Procs |-> NoReason]
    /\ exit = [p \in Procs |-> -1]

SpecCompare == InitCompare /\ [][Next]_vars

(***************************************************************************)
(* Vocabulary of the properties.                                           *)
(***************************************************************************)
IsIndexWrite(c) == c[1] \in {"DELETE", "PUT"}

\* the index writes p issued, in order
IndexWrites(p) == SelectSeq(calls[p], IsIndexWrite)

IndexWriteOps(p) == [i \in 1..Len(IndexWrites(p)) |-> IndexWrites(p)[i][1]]

IsTemplateCall(c) == c[1] \notin {"HEAD", "GET", "DELETE", "PUT"}

TemplateCalls(p) == SelectSeq(calls[p], IsTemplateCall)

\* p issued a call in this step
Stepped(p) == calls'[p] # calls[p]

LastCall(p) == calls[p][Len(calls[p])]

\* the fingerprint the descriptor asks for: centroid geo_point, address_parts nested
Compatible(props) ==
    /\ props.centroid = "geo_point"
    /\ props.address_parts = "nested"

\* p is a reconcile run (the script with the comparator and the force flag)
Reconciler(p) == script[p] = "v2"

\* p's existence query was answered "exists"
SawExisting(p) == Len(calls[p]) >= 1 /\ calls[p][1] = <<"HEAD", 200>>

\* p's existence query was answered "absent"
SawAbsent(p) == Len(calls[p]) >= 1 /\ calls[p][1] = <<"HEAD", 404>>

(***************************************************************************)
(* C1.  A delete call is issued only by a run whose force-recreate flag is *)
(* true; a call of a run without the flag never removes or replaces an     *)
(* index that exists, whatever the engine answers and whatever the drift.  *)
(***************************************************************************)
C1_DeleteOnlyWithForce ==
    [][\A p \in Procs :
          (Stepped(p) /\ ~force[p]) =>
              /\ LastCall(p)'[1] # "DELETE"
              /\ idx.exists => idx' = idx]_vars

\* a run without the flag found drift on an existing index, and the index
\* still stands with the drifted mapping
C1_Witness ==
    \E p \in Procs :
        /\ Reconciler(p) /\ ~force[p]
        /\ outcome[p] = "Failed"
        /\ reason[p].kind = "mapping not expected"
        /\ reason[p].detail = "mismatch"
        /\ idx.exists /\ ~Compatible(idx.props)

(***************************************************************************)
(* C2.  A reconcile run without force whose existence query answered       *)
(* "exists" and that compares an index whose fingerprint mismatches (a     *)
(* fingerprint field missing or of another type) ends Failed with a        *)
(* non-empty reason, exit code 1, having issued no delete, no create and   *)
(* no template call, and leaves the index as it was.                       *)
(***************************************************************************)
C2_DriftFailsWithoutWrites ==
    [][\A p \in Procs :
          (/\ Reconciler(p) /\ ~force[p]
           /\ pc[p] = "mapping" /\ Stepped(p)
           /\ idx.exists /\ ~Compatible(idx.props)) =>
              /\ outcome'[p] = "Failed"
              /\ pc'[p] = "done" /\ exit'[p] = 1
              /\ reason'[p].kind = "mapping not expected"
              /\ \/ reason'[p].detail = "mismatch" /\ reason'[p].errors # <<>>
                 \/ reason'[p].detail = "empty mapping"
              /\ calls'[p][1] = <<"HEAD", 200>>
              /\ IndexWrites(p)' = <<>>
              /\ TemplateCalls(p)' = <<>>
              /\ idx' = idx /\ templates' = templates]_vars

\* the comparison has run on an index whose address_parts is not nested
C2_Witness ==
    \E p \in Procs :
        /\ Reconciler(p) /\ ~force[p] /\ pc[p] = "done"
        /\ outcome[p] = "Failed"
        /\ reason[p].kind = "mapping not expected"
        /\ reason[p].errors = << <<"address_parts", "nested", None>> >>
        /\ idx.exists /\ idx.props.centroid = "geo_point"

(***************************************************************************)
(* C3.  A reconcile run without force whose existence query answered       *)
(* "exists" and whose mapping read returned a fingerprint equal to the     *)
(* desired one ends Skipped, leaves the index as it was, and issues no     *)
(* delete and no create call for the rest of the run.                      *)
(***************************************************************************)
C3_MatchSkipsWithoutWrites ==
    /\ [][\A p \in Procs :
            (/\ Reconciler(p) /\ ~force[p]
             /\ pc[p] = "mapping" /\ Stepped(p)
             /\ LastCall(p)' = <<"GET", 200>>
             /\ idx.exists /\ Compatible(idx.props)) =>
                /\ outcome'[p] = "Skipped"
                /\ pc'[p] = "tmpl"
                /\ idx' = idx]_vars
    /\ [](\A p \in Procs :
            (Reconciler(p) /\ ~force[p] /\ SawExisting(p)) => IndexWrites(p) = <<>>)

\* a Skipped run has gone through its templates and its final validation
C3_Witness ==
    \E p \in Procs :
        /\ Reconciler(p) /\ ~force[p]
        /\ outcome[p] = "Skipped"
        /\ pc[p] = "done" /\ exit[p] = 0
        /\ IndexWrites(p) = <<>>

\* a status that is an answer of the engine and not a success of the call
ErrorStatus(a, accepted) == a # Exc /\ a \notin accepted

\* p's reconcile has returned or raised
Reconciled(p) == pc[p] \in {"tmpl", "validate", "done"} /\ Len(calls[p]) >= 2

(***************************************************************************)
(* C4 as stated.  A reconcile run without force whose existence query      *)
(* answered "absent" yields Created, with one create call and no delete.   *)
(***************************************************************************)
C4_AbsentYieldsCreated ==
    [][\A p \in Procs :
          (/\ Reconciler(p) /\ ~force[p] /\ SawAbsent(p)
           /\ pc[p] = "put" /\ Stepped(p)) =>
              /\ outcome'[p] = "Created"
              /\ IndexWriteOps(p)' = <<"PUT">>]_vars

(***************************************************************************)
(* C4 as amended.  A reconcile run without force whose existence query     *)
(* answered "absent" issues exactly one create call and no delete call; it *)
(* yields Created exactly when that call is answered 200 or 201, and       *)
(* otherwise ends at once with exit code 1 and no further call.            *)
(***************************************************************************)
C4_AbsentCreatesOnce ==
    /\ [][\A p \in Procs :
            (/\ Reconciler(p) /\ ~force[p] /\ SawAbsent(p)
             /\ pc[p] = "put" /\ Stepped(p)) =>
                /\ IndexWriteOps(p)' = <<"PUT">>
                /\ outcome'[p] = "Created" <=> LastCall(p)'[2] \in {200, 201}
                /\ LastCall(p)'[2] \notin {200, 201} => pc'[p] = "done" /\ exit'[p] = 1]_vars
    /\ [](\A p \in Procs :
            (Reconciler(p) /\ ~force[p] /\ SawAbsent(p)) =>
                IF pc[p] = "put" THEN IndexWriteOps(p) = <<>>
                                 ELSE IndexWriteOps(p) = <<"PUT">>)

\* the index was absent, one create call was made and the run is Created
C4_Witness ==
    \E p \in Procs :
        /\ Reconciler(p) /\ ~force[p] /\ SawAbsent(p)
        /\ outcome[p] = "Created"
        /\ IndexWrites(p) = << <<"PUT", 200>> >>
        /\ idx.exists

(***************************************************************************)
(* C5 as stated.  A reconcile run with force whose existence query         *)
(* answered "exists" issues exactly one delete call followed by exactly    *)
(* one create call, whatever the delete call answers.                      *)
(***************************************************************************)
C5_ForceDeletesThenCreates ==
    \A p \in Procs :
        (Reconciler(p) /\ force[p] /\ SawExisting(p) /\ Reconciled(p)) =>
            IndexWriteOps(p) = <<"DELETE", "PUT">>

(***************************************************************************)
(* C5 as amended.  A reconcile run with force whose existence query        *)
(* answered "exists" issues exactly one delete call, whether or not the    *)
(* index had drifted; exactly one create call follows it, unless the       *)
(* delete call is answered with an error status (any status but 200, 202   *)
(* and 404), in which case the run ends Failed without a create call.      *)
(***************************************************************************)
C5_ForceDeletesThenCreatesUnlessDeleteRejected ==
    \A p \in Procs :
        (Reconciler(p) /\ force[p] /\ SawExisting(p)) =>
            CASE pc[p] = "delete" -> IndexWriteOps(p) = <<>>
              [] pc[p] = "put"    -> /\ IndexWriteOps(p) = <<"DELETE">>
                                     /\ ~ErrorStatus(IndexWrites(p)[1][2], {200, 202, 404})
              [] OTHER ->
                    IF ErrorStatus(IndexWrites(p)[1][2], {200, 202, 404})
                    THEN /\ IndexWriteOps(p) = <<"DELETE">>
                         /\ outcome[p] = "Failed" /\ pc[p] = "done" /\ exit[p] = 1
                    ELSE IndexWriteOps(p) = <<"DELETE", "PUT">>

\* a force run has replaced a drifted index: one delete, then one create
C5_Witness ==
    \E p \in Procs :
        /\ Reconciler(p) /\ force[p] /\ SawExisting(p)
        /\ outcome[p] = "Recreated" /\ pc[p] = "done" /\ exit[p] = 0
        /\ IndexWrites(p) = << <<"DELETE", 200>>, <<"PUT", 200>> >>
        /\ \A q \in Procs \ {p} : calls[q] = <<>>

\* some call of p was answered `c`
Issued(p, c) == \E i \in 1..Len(calls[p]) : calls[p][i] = c

(***************************************************************************)
(* C6.  In a force run on an existing index, a delete call that fails (an  *)
(* error status or a transport exception) never lets the run end other     *)
(* than Failed; a failed create call ends the run at once, with exit code  *)
(* 1, no call after it and no template upserted; and after a successful    *)
(* delete and a failed create the index is absent unless another run       *)
(* created it.                                                             *)
(***************************************************************************)
C6_ForceFailureEndsFailed ==
    \A p \in Procs :
        (Reconciler(p) /\ force[p] /\ SawExisting(p)) =>
            LET w == IndexWrites(p)
                deleteFailed == Len(w) >= 1 /\ w[1][2] \notin {200, 202, 404}
                createFailed == Len(w) = 2 /\ w[2][2] \notin {200, 201}
            IN  /\ deleteFailed => outcome[p] \notin {"Created", "Recreated", "Skipped"}
                /\ deleteFailed => exit[p] # 0
                /\ createFailed =>
                      /\ pc[p] = "done" /\ exit[p] = 1
                      /\ LastCall(p) = w[2]
                      /\ TemplateCalls(p) = <<>>
                /\ (createFailed /\ ~deleteFailed
                      /\ \A q \in Procs \ {p} : ~Issued(q, <<"PUT", 200>>)) => ~idx.exists

(***************************************************************************)
(* C6, the part the code keeps: the same with "a delete call that fails"   *)
(* narrowed to a delete call answered with an error status, which ends the *)
(* run at once.                                                            *)
(***************************************************************************)
C6_ForceRejectionEndsFailed ==
    \A p \in Procs :
        (Reconciler(p) /\ force[p] /\ SawExisting(p)) =>
            LET w == IndexWrites(p)
                deleteRejected == Len(w) >= 1 /\ ErrorStatus(w[1][2], {200, 202, 404})
                deleteRaised == Len(w) >= 1 /\ w[1][2] = Exc
                createFailed == Len(w) = 2 /\ w[2][2] \notin {200, 201}
            IN  /\ deleteRejected =>
                      /\ outcome[p] = "Failed" /\ pc[p] = "done" /\ exit[p] = 1
                      /\ LastCall(p) = w[1]
                /\ createFailed =>
                      /\ pc[p] = "done" /\ exit[p] = 1
                      /\ LastCall(p) = w[2]
                      /\ TemplateCalls(p) = <<>>
                /\ (createFailed /\ ~deleteRaised
                      /\ \A q \in Procs \ {p} : ~Issued(q, <<"PUT", 200>>)) => ~idx.exists

\* a force run deleted the index and its create call was then rejected
C6_Witness ==
    \E p \in Procs :
        /\ Reconciler(p) /\ force[p]
        /\ calls[p] = << <<"HEAD", 200>>, <<"DELETE", 200>>, <<"PUT", 503>> >>
        /\ pc[p] = "done" /\ outcome[p] = "Failed"
        /\ ~idx.exists

(***************************************************************************)
(* C7.  A run whose create_index ended Created or Recreated exits 0 only   *)
(* through a re-read of the mapping that found the fingerprint fields as   *)
(* desired; a re-read that finds a mismatch makes the run Failed, with     *)
(* exit code 1.                                                            *)
(***************************************************************************)
C7_CreatedIsRevalidated ==
    [][\A p \in Procs :
          /\ (outcome[p] \in {"Created", "Recreated"} /\ exit[p] = -1 /\ exit'[p] = 0) =>
                /\ pc[p] = "validate"
                /\ LastCall(p)' = <<"GET", 200>>
                /\ idx.exists /\ Compatible(idx.props)
          /\ (pc[p] = "validate" /\ Stepped(p) /\ ~(idx.exists /\ Compatible(idx.props))) =>
                outcome'[p] = "Failed" /\ exit'[p] = 1]_vars

(***************************************************************************)
(* C7, the part the code keeps: the same for the runs of init_es_v2.       *)
(***************************************************************************)
C7_V2CreatedIsRevalidated ==
    [][\A p \in Procs :
          Reconciler(p) =>
          /\ (outcome[p] \in {"Created", "Recreated"} /\ exit[p] = -1 /\ exit'[p] = 0) =>
                /\ pc[p] = "validate"
                /\ LastCall(p)' = <<"GET", 200>>
                /\ idx.exists /\ Compatible(idx.props)
          /\ (pc[p] = "validate" /\ Stepped(p) /\ ~(idx.exists /\ Compatible(idx.props))) =>
                outcome'[p] = "Failed" /\ exit'[p] = 1]_vars

\* a run created the index, its create call answered 200, and the final
\* validation found another mapping
C7_Witness ==
    \E p \in Procs :
        /\ Reconciler(p) /\ Issued(p, <<"PUT", 200>>)
        /\ pc[p] = "done" /\ exit[p] = 1
        /\ outcome[p] = "Failed" /\ reason[p].kind = "validation failed"

(***************************************************************************)
(* C8.  A create call answered "already exists" (400) in a run whose       *)
(* existence query had answered "absent", the index having been created    *)
(* meanwhile with the very mapping the run desires, is treated as Skipped: *)
(* the run goes on to its templates.                                       *)
(***************************************************************************)
C8_AlreadyExistsIsSkipped ==
    [][\A p \in Procs :
          (/\ pc[p] = "put" /\ Stepped(p)
           /\ SawAbsent(p)
           /\ LastCall(p)' = <<"PUT", 400>>
           /\ idx.exists /\ idx.props = index_config(script[p])) =>
              /\ outcome'[p] = "Skipped"
              /\ pc'[p] = "tmpl"]_vars

(***************************************************************************)
(* C9.  Two runs of the same script without force, on an index that was    *)
(* absent, with every call answered truthfully: when both have ended,      *)
(* neither is Failed and the index is present with the desired mapping.    *)
(***************************************************************************)
C9_ConcurrentProvisionersBothSucceed ==
    (/\ ~faults
     /\ \A p \in Procs : pc[p] = "done" /\ ~force[p] /\ calls[p] # <<>>
     /\ \A p, q \in Procs : script[p] = script[q]
     /\ \E p \in Procs : SawAbsent(p)) =>
        /\ \A p \in Procs : outcome[p] # "Failed" /\ exit[p] = 0
        /\ idx.exists
        /\ \A p \in Procs : idx.props = index_config(script[p])

(***************************************************************************)
(* C10.  Runs one after the other: after a run that found the index absent *)
(* and ended Created, a second run of the same script without force, whose *)
(* existence query and mapping read are answered, yields Skipped from      *)
(* create_index and issues no delete and no create call.                   *)
(***************************************************************************)
C10_RerunIsSkipped ==
    \A p, q \in Procs :
        (/\ mode = "sequential" /\ p # q
         /\ script[p] = script[q] /\ ~force[q]
         /\ SawAbsent(p) /\ outcome[p] = "Created" /\ pc[p] = "done"
         /\ SawExisting(q)
         /\ Reconciler(q) => Len(calls[q]) >= 2 /\ calls[q][2] = <<"GET", 200>>) =>
            /\ IndexWrites(q) = <<>>
            /\ pc[q] # "done" => outcome[q] = "Skipped"
            /\ pc[q] = "done" =>
                  \/ outcome[q] = "Skipped"
                  \/ outcome[q] = "Failed" /\ reason[q].kind = "validation failed"

\* the first run created the index and exited 0; the second run, launched
\* after it, was Skipped and exited 0 without an index write
C10_Witness ==
    \E p, q \in Procs :
        /\ mode = "sequential" /\ p # q
        /\ Reconciler(p) /\ Reconciler(q) /\ ~force[q]
        /\ SawAbsent(p) /\ outcome[p] = "Created" /\ exit[p] = 0
        /\ SawExisting(q) /\ outcome[q] = "Skipped" /\ exit[q] = 0
        /\ IndexWrites(q) = <<>>

\* p's step is a health probe made while the loop condition held
Probed(p) ==
    /\ pc[p] = "gate"
    /\ LoopContinues(elapsed[p])
    /\ <<pc[p], polls[p]>>' # <<pc[p], polls[p]>>

TimedOut(p) == pc[p] = "done" /\ reason[p].kind = "not ready"

(***************************************************************************)
(* C11.  When no health probe succeeds, the readiness gate fails with the  *)
(* timeout at an elapsed time no earlier than the deadline and no later    *)
(* than the deadline plus one polling interval, however long the probes    *)
(* lasted.                                                                 *)
(***************************************************************************)
C11_TimeoutWithinOneInterval ==
    \A p \in Procs :
        TimedOut(p) =>
            /\ elapsed[p] >= timeout
            /\ elapsed[p] <= timeout + PollDelay

\* what the loop gives: the condition held before the last probe, so the
\* timeout comes less than one probe and one sleep after the deadline
C11_TimeoutWithinProbeAndInterval ==
    \A p \in Procs :
        TimedOut(p) =>
            /\ elapsed[p] >= timeout
            /\ \E d \in ProbeDurations : elapsed[p] - (d + PollDelay) < timeout

C11_Witness ==
    \E p \in Procs :
        TimedOut(p) /\ health[p] # 200 /\ polls[p] = MaxPolls /\ calls[p] = <<>>

(***************************************************************************)
(* C12.  A health probe that raised a transport exception or was answered  *)
(* with a status other than 200 does not end the readiness gate: the gate  *)
(* stays in its loop, the fixed delay is added to the time of the probe,   *)
(* and the run is still without exit code.  The gate ends a run only by    *)
(* the timeout, and only once the deadline has elapsed.                    *)
(***************************************************************************)
C12_FailedProbeIsRetried ==
    [][\A p \in Procs :
          /\ (Probed(p) /\ health'[p] # 200) =>
                /\ pc'[p] = "gate"
                /\ exit'[p] = -1
                /\ reason'[p] = NoReason
                /\ polls'[p] = polls[p] + 1
                /\ (elapsed'[p] - elapsed[p]) - PollDelay \in ProbeDurations
          /\ (pc[p] = "gate" /\ pc'[p] = "done") =>
                /\ reason'[p].kind = "not ready"
                /\ exit'[p] = 1
                /\ elapsed[p] >= timeout]_vars

\* two probes failed, the last one by an exception, and the gate is about
\* to probe a third time
C12_Witness ==
    \E p \in Procs :
        /\ pc[p] = "gate" /\ health[p] = Exc /\ polls[p] = 2
        /\ LoopContinues(elapsed[p]) /\ exit[p] = -1

(***************************************************************************)
(* C13.  The probe that is answered 200 ends the readiness gate in that    *)
(* same step, with no sleep added and no other probe made; and a run is    *)
(* past the gate only if its last probe was answered 200.                  *)
(***************************************************************************)
C13_ReadyExactlyOnUsableState ==
    /\ [][\A p \in Procs :
             /\ (Probed(p) /\ health'[p] = 200) =>
                   /\ pc'[p] = "head"
                   /\ elapsed'[p] <= elapsed[p]
                   /\ polls'[p] <= polls[p]
             /\ (pc[p] = "gate" /\ pc'[p] = "head") => health'[p] = 200]_vars
    /\ [](\A p \in Procs :
             (pc[p] \in CallLabels \/ calls[p] # <<>>) => health[p] = 200)

\* a run is past the gate, about to query the index, after a 200
C13_Witness ==
    \E p \in Procs : pc[p] = "head" /\ health[p] = 200 /\ calls[p] = <<>>

IndexCallOps == {"HEAD", "GET", "DELETE", "PUT"}

\* positions of p's template calls in calls[p]
TemplatePositions(p) == {i \in 1..Len(calls[p]) : IsTemplateCall(calls[p][i])}

\* p sent every template of its list, in order, and each was accepted
AllUpserted(p) ==
    /\ Len(TemplateCalls(p)) = Len(template_list(script[p]))
    /\ \A i \in 1..Len(TemplateCalls(p)) :
          /\ TemplateCalls(p)[i][1] = template_list(script[p])[i][1]
          /\ TemplateCalls(p)[i][2] \in {200, 201}

(***************************************************************************)
(* C14.  A run goes through readiness, index reconciliation, template      *)
(* upserts and final validation in that order: it issues a call only after *)
(* a health probe answered 200, and none after the readiness timeout; it   *)
(* sends a template only when create_index did not fail (no rejected       *)
(* delete, no rejected create before it); its template calls are           *)
(* consecutive, and the only call after them is the final mapping read,    *)
(* made once all templates were accepted.                                  *)
(***************************************************************************)
C14_StagesInOrder ==
    /\ [](\A p \in Procs :
             /\ calls[p] # <<>> => health[p] = 200
             /\ TimedOut(p) => calls[p] = <<>>
             /\ \A i \in TemplatePositions(p) : \A j \in 1..Len(calls[p]) :
                   /\ (j < i /\ j \notin TemplatePositions(p)) =>
                         /\ calls[p][j][1] \in IndexCallOps
                         /\ \A k \in 1..j : k \notin TemplatePositions(p)
                   /\ (j > i /\ j \notin TemplatePositions(p)) =>
                         /\ j = Len(calls[p])
                         /\ calls[p][j][1] = "GET"
                         /\ AllUpserted(p))
    /\ [][\A p \in Procs :
             (Stepped(p) /\ IsTemplateCall(LastCall(p)')) =>
                /\ outcome[p] \in {"Skipped", "Created", "Recreated"}
                /\ \A i \in 1..Len(calls[p]) :
                      /\ calls[p][i][1] = "PUT" =>
                            \/ calls[p][i][2] \in {200, 201}
                            \/ script[p] = "v1" /\ calls[p][i][2] = 400
                      /\ calls[p][i][1] = "DELETE" =>
                            ~ErrorStatus(calls[p][i][2], {200, 202, 404})]_vars

\* a run that went through the four stages: existence query, create, the
\* three templates, the final mapping read
C14_Witness ==
    \E p \in Procs :
        /\ exit[p] = 0 /\ health[p] = 200
        /\ Len(calls[p]) = 6
        /\ calls[p][1] = <<"HEAD", 404>> /\ calls[p][2] = <<"PUT", 200>>
        /\ TemplatePositions(p) = {3, 4, 5}
        /\ calls[p][6] = <<"GET", 200>>

\* readiness reached, create_index not failed, every template upserted,
\* final validation read answered
FullSuccess(p) ==
    /\ health[p] = 200
    /\ outcome[p] \in {"Skipped", "Created", "Recreated"}
    /\ AllUpserted(p)
    /\ LastCall(p) = <<"GET", 200>>
    /\ Len(calls[p]) - 1 \in TemplatePositions(p)

(***************************************************************************)
(* C15.  A run that has ended has exit code 0 exactly when it succeeded in *)
(* full: readiness reached, create_index not failed, every template        *)
(* upserted, final validation passed; a failed step or the readiness       *)
(* timeout gives a non-zero exit code.                                     *)
(***************************************************************************)
C15_ExitZeroOnlyOnFullSuccess ==
    \A p \in Procs :
        pc[p] = "done" =>
            /\ exit[p] \in {0, 1}
            /\ exit[p] = 0 <=> FullSuccess(p)
            /\ (outcome[p] = "Failed" \/ TimedOut(p)) => exit[p] # 0

\* the same for the runs of v2 alone
C15_V2ExitZeroOnlyOnFullSuccess ==
    \A p \in Procs :
        (pc[p] = "done" /\ Reconciler(p)) =>
            /\ exit[p] \in {0, 1}
            /\ exit[p] = 0 <=> FullSuccess(p)
            /\ (outcome[p] = "Failed" \/ TimedOut(p)) => exit[p] # 0

\* in v1 the exit code tells the rest: 0 exactly when every template was upserted
C15_V1ExitZeroWithoutValidation ==
    \A p \in Procs :
        (pc[p] = "done" /\ script[p] = "v1") =>
            /\ exit[p] = 0 <=> (AllUpserted(p) /\ outcome[p] # "Failed")
            /\ exit[p] = 0 => IsTemplateCall(LastCall(p))

C15_Witness ==
    \E p, q \in Procs :
        /\ Reconciler(p) /\ exit[p] = 0 /\ FullSuccess(p)
        /\ Reconciler(q) /\ exit[q] = 1 /\ outcome[q] = "Failed"

\* the entries of a template list, as a set
Listed(s) == {template_list(s)[i] : i \in 1..Len(template_list(s))}

(***************************************************************************)
(* C16.  create_search_templates posts the templates in the order of its   *)
(* list, without reading the store first.  Every template call but the     *)
(* last was accepted; a template call that was not accepted is the last    *)
(* call of the run, which ends with exit code 1 and an output that names   *)
(* that template.                                                          *)
(* The templates accepted before it stay stored: no step removes a stored  *)
(* script.                                                                 *)
(***************************************************************************)
C16_TemplatesStopAtFirstFailure ==
    /\ [](\A p \in Procs :
             LET tc == TemplateCalls(p)
                 n == Len(tc)
             IN  /\ n <= Len(template_list(script[p]))
                 /\ \A i \in 1..n :
                       /\ tc[i][1] = template_list(script[p])[i][1]
                       /\ i < n => tc[i][2] \in {200, 201}
                       /\ tc[i][2] = 200 => template_list(script[p])[i] \in templates
                 /\ (n >= 1 /\ tc[n][2] \notin {200, 201}) =>
                       /\ LastCall(p) = tc[n]
                       /\ pc[p] = "done" /\ exit[p] = 1
                       /\ reason[p].detail = tc[n][1]
                       /\ tc[n][2] # Exc => reason[p].kind = "template failed")
    /\ [][\A t \in templates : \E u \in templates' : u[1] = t[1]]_vars

\* the second template was rejected: the run ended there, naming it, and
\* the first template is stored
C16_Witness ==
    \E p \in Procs :
        /\ Len(TemplateCalls(p)) = 2
        /\ TemplateCalls(p)[1][2] = 200 /\ TemplateCalls(p)[2][2] = 503
        /\ pc[p] = "done" /\ exit[p] = 1
        /\ reason[p].detail = template_list(script[p])[2][1]
        /\ template_list(script[p])[1] \in templates
        /\ template_list(script[p])[3] \notin templates

(***************************************************************************)
(* C17.  Two runs of the same script one after the other, every template   *)
(* accepted: after the first run the store holds the templates of the      *)
(* list, names and bodies; every accepted template call of the second run  *)
(* leaves the store as it was, and so does the second run as a whole.      *)
(***************************************************************************)
C17_SecondTemplateRunChangesNothing ==
    /\ [](\A p, q \in Procs :
             (/\ mode = "sequential" /\ p # q
              /\ pc[p] = "done" /\ AllUpserted(p)
              /\ \/ TemplateCalls(q) = <<>>
                 \/ /\ script[q] = script[p]
                    /\ \A i \in 1..Len(TemplateCalls(q)) :
                          TemplateCalls(q)[i][2] \in {200, 201}) =>
                templates = Listed(script[p]))
    /\ [][\A p, q \in Procs :
             (/\ mode = "sequential" /\ p # q
              /\ pc[p] = "done" /\ AllUpserted(p)
              /\ script[q] = script[p]
              /\ Stepped(q) /\ IsTemplateCall(LastCall(q)')
              /\ LastCall(q)'[2] \in {200, 201}) =>
                templates' = templates]_vars

\* both runs of the same script posted their three templates with success
C17_Witness ==
    \E p, q \in Procs :
        /\ mode = "sequential" /\ p # q /\ script[p] = script[q]
        /\ pc[p] = "done" /\ AllUpserted(p)
        /\ AllUpserted(q) /\ pc[q] \in {"validate", "done"}
        /\ templates = Listed(script[p])

(***************************************************************************)
(* C18.  Every call to the engine has a bounded timeout, so no run ever    *)
(* waits forever on a call the engine does not answer.                     *)
(***************************************************************************)
C18_NoCallBlocksForever ==
    \A p \in Procs : pc[p] # "hung"

\* every call of v2 passes timeout=: a run of v2 never waits forever
C18_V2NoCallBlocksForever ==
    \A p \in Procs : Reconciler(p) => pc[p] # "hung"

\* a run of v1 waits forever on its create call
C18_Witness ==
    \E p \in Procs :
        /\ script[p] = "v1" /\ pc[p] = "hung" /\ exit[p] = -1
        /\ calls[p] = << <<"HEAD", 404>> >>

\* the fingerprint fields with their expected types, in the order in which
\* mapping_is_expected tests them
Fingerprint == << <<"centroid", "geo_point">>, <<"address_parts", "nested">> >>

\* one entry (field, expected, observed) per fingerprint field that is
\* missing or whose type is not the expected one, in fingerprint order
ExpectedDiff(props) ==
    LET Differs(f) == props[f[1]] # f[2]
        bad == SelectSeq(Fingerprint, Differs)
    IN  [i \in 1..Len(bad) |-> <<bad[i][1], bad[i][2], GetType(props, bad[i][1])>>]

\* p's step reads the mapping of the index and the engine answers it
ReadsMapping(p) ==
    /\ pc[p] \in {"mapping", "validate"}
    /\ Stepped(p)
    /\ LastCall(p)' = <<"GET", 200>>

\* the comparison of p's step failed with `errors`
FailsWith(p, errors) ==
    /\ pc'[p] = "done" /\ exit'[p] = 1
    /\ outcome'[p] = "Failed"
    /\ reason'[p].errors = errors

ScenarioProps(o) == [centroid |-> "geo_point", address_parts |-> "object", other |-> o]

(***************************************************************************)
(* C19.  The comparison lists the mismatches in the order of the           *)
(* fingerprint fields, centroid before address_parts.  On a mapping with   *)
(* centroid geo_point and address_parts object it fails with exactly the   *)
(* entry (address_parts, nested, object); when both fields mismatch it     *)
(* fails with two entries, the one of centroid first.  Two runs that read  *)
(* the same mapping report the same mismatches.                            *)
(***************************************************************************)
C19_DiffInDeclarationOrder ==
    /\ [][\A p \in Procs :
             ReadsMapping(p) =>
                /\ idx.props \in {ScenarioProps(TRUE), ScenarioProps(FALSE)} =>
                      FailsWith(p, << <<"address_parts", "nested", "object">> >>)
                /\ (/\ idx.props # EmptyProps
                    /\ idx.props.centroid # "geo_point"
                    /\ idx.props.address_parts # "nested") =>
                      /\ pc'[p] = "done" /\ outcome'[p] = "Failed"
                      /\ Len(reason'[p].errors) = 2
                      /\ reason'[p].errors[1][1] = "centroid"
                      /\ reason'[p].errors[2][1] = "address_parts"]_vars
    /\ [](\A p, q \in Procs :
             (/\ reason[p].kind = "mapping not expected"
              /\ reason[q].kind = "mapping not expected"
              /\ calls[p] = calls[q] /\ LastCall(p) = <<"GET", 200>>) =>
                reason[p] = reason[q])

\* a run found centroid geo_point and address_parts object and failed
\* with the one entry of address_parts
C19_Witness ==
    \E p \in Procs :
        /\ idx.props.centroid = "geo_point" /\ idx.props.address_parts = "object"
        /\ calls[p] = << <<"HEAD", 200>>, <<"GET", 200>> >>
        /\ outcome[p] = "Failed" /\ exit[p] = 1
        /\ reason[p].errors = << <<"address_parts", "nested", "object">> >>

\* the result of p's step is the comparison of the mapping with the
\* fingerprint: it passes on an empty diff and fails with the diff otherwise
ReportsExpectedDiff(p) ==
    IF ExpectedDiff(idx.props) = <<>>
    THEN /\ outcome'[p] # "Failed"
         /\ reason'[p] = NoReason
    ELSE FailsWith(p, ExpectedDiff(idx.props))

ReadsNoMapping(p) ==
    /\ pc[p] \in {"mapping", "validate"}
    /\ Stepped(p)
    /\ LastCall(p)'[1] = "GET"
    /\ LastCall(p)'[2] # 200

\* what the comparison reports: the reason and the list of mismatches
Report(r) == <<r.detail, r.errors>>

(***************************************************************************)
(* C21.  The comparison of an index that does not exist, or whose mapping  *)
(* could not be read, gives a result of its own: it differs from the       *)
(* result for every existing index whose fingerprint fields are missing or *)
(* of another type.                                                        *)
(***************************************************************************)
C21_AbsentIsToldApart ==
    [][\A p \in Procs :
          ReadsNoMapping(p) =>
             \A m \in AllMappings :
                ~mapping_is_expected(m).ok =>
                   Report(reason'[p]) # Report(mapping_is_expected(m))]_vars

\* what the code gives: the read that found no mapping fails the run as
\* "empty mapping", the result of an existing index without properties
C21_AbsentFailsAsEmptyMapping ==
    [][\A p \in Procs :
          ReadsNoMapping(p) =>
             /\ FailsWith(p, <<>>)
             /\ reason'[p].detail = "empty mapping"
             /\ Report(reason'[p]) = Report(mapping_is_expected(EmptyProps))]_vars

\* the final read of a run was answered 404: another run had deleted the index
C21_Witness ==
    \E p \in Procs :
        /\ Len(calls[p]) = 6 /\ LastCall(p) = <<"GET", 404>>
        /\ reason[p].kind = "validation failed"
        /\ reason[p].detail = "empty mapping"

\* the one DELETE call of p, <<>> when it issued none
DeleteCalls(p) == SelectSeq(calls[p], LAMBDA c : c[1] = "DELETE")

(***************************************************************************)
(* C22.  In a run with force, a delete call answered 404 is a success: the *)
(* run goes on to its create call with no exit code and no failure, and    *)
(* ends Recreated when that call is accepted.  A run that ended on its     *)
(* delete call got an answer other than 200, 202 and 404.                  *)
(***************************************************************************)
C22_DeleteNotFoundIsSuccess ==
    /\ [][\A p \in Procs :
             (Stepped(p) /\ LastCall(p)' = <<"DELETE", 404>>) =>
                /\ force[p]
                /\ pc'[p] = "put"
                /\ exit'[p] = -1
                /\ outcome'[p] # "Failed"]_vars
    /\ [](\A p \in Procs :
             /\ (/\ DeleteCalls(p) = << <<"DELETE", 404>> >>
                 /\ Len(calls[p]) >= 3
                 /\ calls[p][3] \in {<<"PUT", 200>>, <<"PUT", 201>>}
                 /\ pc[p] = "tmpl") => outcome[p] = "Recreated"
             /\ (pc[p] = "done" /\ DeleteCalls(p) # <<>> /\ LastCall(p)[1] = "DELETE") =>
                   /\ LastCall(p)[2] \notin {200, 202, 404}
                   /\ outcome[p] = "Failed" /\ exit[p] = 1)

\* the index vanished between the existence query and the delete of a run
\* with force, which went on, created it and ended Recreated
C22_Witness ==
    \E p \in Procs :
        /\ force[p]
        /\ Len(calls[p]) >= 3
        /\ calls[p][1] = <<"HEAD", 200>>
        /\ calls[p][2] = <<"DELETE", 404>>
        /\ calls[p][3] = <<"PUT", 200>>
        /\ outcome[p] = "Recreated" /\ exit[p] = 0

\* p issued a create call
Creates(p) == \E i \in 1..Len(calls[p]) : calls[p][i][1] = "PUT"

\* p's delete call, made right after the existence query, succeeded
OwnDeleteSucceeded(p) ==
    /\ Len(calls[p]) >= 2
    /\ calls[p][2][1] = "DELETE"
    /\ calls[p][2][2] \in {200, 202, 404}

(***************************************************************************)
(* C23.  A run issues a create call only when its existence query was      *)
(* answered 404, or, with force, after its own delete call succeeded.  An  *)
(* existence query that raised or was answered with another status is      *)
(* never followed by a create call.                                        *)
(***************************************************************************)
C23_CreateOnlyWhenAbsentOrDeleted ==
    \A p \in Procs :
        Creates(p) =>
            \/ SawAbsent(p)
            \/ force[p] /\ SawExisting(p) /\ OwnDeleteSucceeded(p)

\* what the code gives: a create call follows every existence query that
\* was not answered 200, and with force a delete call that was not rejected
C23_CreateUnlessSeenExisting ==
    \A p \in Procs :
        Creates(p) =>
            \/ calls[p][1][1] = "HEAD" /\ calls[p][1][2] # 200
            \/ /\ force[p] /\ SawExisting(p)
               /\ calls[p][2][1] = "DELETE"
               /\ ~ErrorStatus(calls[p][2][2], {200, 202, 404})

\* the existence query was answered 503 and the run went on to create
C23_Witness ==
    \E p \in Procs :
        /\ Len(calls[p]) >= 2
        /\ calls[p][1] = <<"HEAD", 503>>
        /\ calls[p][2][1] = "PUT"

\* p's step gives it exit code 0
ExitsZero(p) == exit[p] # 0 /\ exit'[p] = 0

(***************************************************************************)
(* C24.  A run of v2 gets exit code 0 only in the step of its final        *)
(* validation, made after all its index and template calls, when the read  *)
(* was answered and the index had both fingerprint fields with their       *)
(* expected types at that moment.  This holds for every result of          *)
(* create_index, Skipped included, and for every interleaving with the     *)
(* other run.                                                              *)
(***************************************************************************)
C24_ExitZeroOnlyAfterValidMapping ==
    /\ [][\A p \in Procs :
             (Reconciler(p) /\ ExitsZero(p)) =>
                /\ pc[p] = "validate"
                /\ LastCall(p)' = <<"GET", 200>>
                /\ idx.exists /\ Compatible(idx.props)
                /\ AllUpserted(p)
                /\ outcome[p] \in {"Skipped", "Created", "Recreated"}]_vars
    /\ [](\A p \in Procs :
             (Reconciler(p) /\ exit[p] = 0) =>
                /\ pc[p] = "done"
                /\ LastCall(p) = <<"GET", 200>>
                /\ Len(calls[p]) - 1 \in TemplatePositions(p))

\* a run without force found the index compatible; the other run, with
\* force, deleted the index afterwards; the final validation of the first
\* run was answered 404 and the run ended with exit code 1
C24_Witness ==
    \E p, q \in Procs :
        /\ p # q /\ Reconciler(p) /\ ~force[p]
        /\ Len(calls[p]) = 6
        /\ calls[p][1] = <<"HEAD", 200>> /\ calls[p][2] = <<"GET", 200>>
        /\ AllUpserted(p)
        /\ calls[p][6] = <<"GET", 404>>
        /\ exit[p] = 1 /\ reason[p].kind = "validation failed"
        /\ force[q] /\ Issued(q, <<"DELETE", 200>>)

====
